---- MODULE Spec2Model ----
(***************************************************************************)
(* Model of internal/cache/memory.go: the generational in-memory cache     *)
(* (InMemoryCache), its reaper goroutine and the InMemoryCacheManager.      *)
(*                                                                         *)
(* Every critical section that the code runs under one mutex acquisition   *)
(* is one atomic action.  GetCache and Cycle release and take locks in the *)
(* middle of the call, so they are split at those points and interleave    *)
(* with every other operation.  Time is a bounded integer clock; map       *)
(* iteration order is a nondeterministic choice.                           *)
(***************************************************************************)
EXTENDS Integers, Sequences, FiniteSets, TLC

\* --------------------------------------------------------------- bounds
MaxTime == 2
\* The runs explored: how many GetCache calls may be in progress at once,
\* how many calls of each operation are made, and the TTL overrides passed.
Classes == {"a", "b"}
Budgets == {
    [classes |-> {"a"}, par |-> 1, calls |-> 1, sets |-> 2, cycles |-> 1, deletes |-> 1,
     ttls |-> {2}],
    [classes |-> {"a"}, par |-> 2, calls |-> 2, sets |-> 1, cycles |-> 1, deletes |-> 0,
     ttls |-> {2}],
    [classes |-> {"a"}, par |-> 1, calls |-> 1, sets |-> 2, cycles |-> 3, deletes |-> 0,
     ttls |-> {2}],
    [classes |-> Classes, par |-> 1, calls |-> 2, sets |-> 1, cycles |-> 2, deletes |-> 0,
     ttls |-> {2}],
    [classes |-> {"a"}, par |-> 2, calls |-> 3, sets |-> 1, cycles |-> 0, deletes |-> 0,
     ttls |-> {1, 2}]}
\* the runs explored under fair scheduling
LiveBudgets == {
    [classes |-> {"a"}, par |-> 1, calls |-> 2, sets |-> 1, cycles |-> 1, deletes |-> 1,
     ttls |-> {2}],
    [classes |-> {"a"}, par |-> 2, calls |-> 3, sets |-> 0, cycles |-> 0, deletes |-> 0,
     ttls |-> {1, 2}]}
Gens == {"g0", "g1", "g2"}
Keys == {"k1", "k2"}
Values == {"v1", "v2"}
Procs == {"p1", "p2"}
\* durations; NoTTL stands for CacheOptions.TTL == nil
NoTTL == 0
TTLs == {1, 2}
DefaultTTL == 1
InitialChecksum == "g0"

VARIABLES
    now,        \* time.Now()
    mChecksum,  \* InMemoryCacheManager.currentChecksum
    caches,     \* InMemoryCacheManager.caches: class -> instance (0: absent)
    heap,       \* the InMemoryCache objects ever allocated, by instance number
    call,       \* the GetCache calls in progress, one per calling goroutine
    cyc,        \* the Cycle call in progress (m.mu is held while cyc.pc # "idle")
    budget,     \* the run explored, one of Budgets
    used,       \* number of calls made so far, per operation
    handed,     \* history: the instances GetCache has returned
    hist        \* history: per instance, the last two cycles applied in a row,
                \* the last Set of each key and, for each key deleted since,
                \* the generations its last Delete removed it from

vars == <<now, mChecksum, caches, heap, call, cyc, budget, used, handed, hist>>

\* --------------------------------------------------------------- maps
EmptyMap == [x \in {} |-> 0]
Put(f, k, v) == [x \in DOMAIN f \cup {k} |-> IF x = k THEN v ELSE f[x]]
Drop(f, S) == [x \in DOMAIN f \ S |-> f[x]]
NoInst == 0
Insts == 1..Len(heap)
Registered == {caches[cl] : cl \in Classes} \ {NoInst}

\* --------------------------------------------------------------- InMemoryCache
\* memoryCacheEntry, as Set makes it at time t under ttl d
Entry(v, t, d) == [value |-> v, expiry |-> t + d]

\* a faulty variant of After
AfterOrAt(t, expiry) == t >= expiry

\* time.Now().After(entry.expiry)
After(t, expiry) == t > expiry

NotFound == <<"", FALSE, TRUE>>

\* the accessors
Checksum(c) == c.currentChecksum
TTL(c) == c.ttl
Uncycled(c) == c.uncycled

\* a faulty variant of StaleHits: an expired stale entry is reported as not
\* found and not current
StaleHitsExpiredNotCurrent(c, key, t) ==
    {IF After(t, c.segments[g][key].expiry)
        THEN <<"", FALSE, FALSE>>
        ELSE <<c.segments[g][key].value, TRUE, FALSE>> :
     g \in {h \in DOMAIN c.segments \ {c.currentChecksum} : key \in DOMAIN c.segments[h]}}

\* The outcomes of Get(key) at time t: the current segment first, then the
\* other segments in map iteration order (one outcome per order).
StaleHits(c, key, t) ==
    {IF After(t, c.segments[g][key].expiry)
        THEN NotFound
        ELSE <<c.segments[g][key].value, TRUE, FALSE>> :
     g \in {h \in DOMAIN c.segments \ {c.currentChecksum} : key \in DOMAIN c.segments[h]}}

\* a faulty variant of Get: an expired current entry is passed over and the
\* other segments are searched
GetFallsThrough(c, key, t) ==
    IF /\ c.currentChecksum \in DOMAIN c.segments
       /\ key \in DOMAIN c.segments[c.currentChecksum]
       /\ ~After(t, c.segments[c.currentChecksum][key].expiry)
    THEN {<<c.segments[c.currentChecksum][key].value, TRUE, TRUE>>}
    ELSE IF StaleHits(c, key, t) = {} THEN {NotFound} ELSE StaleHits(c, key, t)

Get(c, key, t) ==
    IF c.currentChecksum \in DOMAIN c.segments
       /\ key \in DOMAIN c.segments[c.currentChecksum]
    THEN IF After(t, c.segments[c.currentChecksum][key].expiry)
            THEN {NotFound}
            ELSE {<<c.segments[c.currentChecksum][key].value, TRUE, TRUE>>}
    ELSE IF StaleHits(c, key, t) = {} THEN {NotFound} ELSE StaleHits(c, key, t)

\* faulty variants of Set
SetIfAbsent(c, key, value, t) ==
    LET cur == c.currentChecksum
        seg == IF cur \in DOMAIN c.segments THEN c.segments[cur] ELSE EmptyMap
    IN  IF key \in DOMAIN seg
           THEN c
           ELSE [c EXCEPT !.segments = Put(c.segments, cur, Put(seg, key, Entry(value, t, c.ttl)))]

SetAlone(c, key, value, t) ==
    [c EXCEPT !.segments =
        Put(c.segments, c.currentChecksum, Put(EmptyMap, key, Entry(value, t, c.ttl)))]

Set(c, key, value, t) ==
    LET cur == c.currentChecksum
        seg == IF cur \in DOMAIN c.segments THEN c.segments[cur] ELSE EmptyMap
    IN  [c EXCEPT !.segments = Put(c.segments, cur, Put(seg, key, Entry(value, t, c.ttl)))]

\* a faulty variant of Delete: only the current segment is looked at
DeleteCurrentOnly(c, key) ==
    [c EXCEPT !.segments =
        [g \in DOMAIN c.segments |->
            IF g = c.currentChecksum THEN Drop(c.segments[g], {key}) ELSE c.segments[g]]]

Delete(c, key) ==
    [c EXCEPT !.segments = [g \in DOMAIN c.segments |-> Drop(c.segments[g], {key})]]

\* a faulty variant of reap: only the current segment is scanned
reapCurrentOnly(c, t) ==
    [c EXCEPT !.segments =
        [g \in DOMAIN c.segments |->
            IF g = c.currentChecksum
               THEN Drop(c.segments[g],
                         {k \in DOMAIN c.segments[g] : After(t, c.segments[g][k].expiry)})
               ELSE c.segments[g]]]

reap(c, t) ==
    [c EXCEPT !.segments =
        [g \in DOMAIN c.segments |->
            Drop(c.segments[g],
                 {k \in DOMAIN c.segments[g] : After(t, c.segments[g][k].expiry)})]]

\* --------------------------------------------------------------- Cycle, per cache
\* faulty variants of CycleCache
CycleCacheDropsPrevious(c, checksum, oldChecksum, force) ==
    LET withNew == IF checksum \in DOMAIN c.segments
                      THEN c.segments
                      ELSE Put(c.segments, checksum, EmptyMap)
    IN  [c EXCEPT !.currentChecksum = checksum,
                  !.segments = Drop(withNew, DOMAIN withNew \ {checksum})]

CycleCacheKeepsAll(c, checksum, oldChecksum, force) ==
    LET withNew == IF checksum \in DOMAIN c.segments
                      THEN c.segments
                      ELSE Put(c.segments, checksum, EmptyMap)
    IN  [c EXCEPT !.currentChecksum = checksum,
                  !.segments = IF force
                                  THEN Drop(withNew, DOMAIN withNew \ {checksum})
                                  ELSE withNew]

CycleCacheIgnoresForce(c, checksum, oldChecksum, force) ==
    LET withNew == IF checksum \in DOMAIN c.segments
                      THEN c.segments
                      ELSE Put(c.segments, checksum, EmptyMap)
        gone == {g \in DOMAIN withNew : g # checksum /\ g # oldChecksum}
    IN  [c EXCEPT !.currentChecksum = checksum, !.segments = Drop(withNew, gone)]

CycleCacheNoNewSegment(c, checksum, oldChecksum, force) ==
    LET gone == IF force
                   THEN {g \in DOMAIN c.segments : g # checksum}
                   ELSE {g \in DOMAIN c.segments : g # checksum /\ g # oldChecksum}
    IN  [c EXCEPT !.currentChecksum = checksum, !.segments = Drop(c.segments, gone)]

\* lines 161-184: the body of the loop for one cache, under mCache.mu
CycleCache(c, checksum, oldChecksum, force) ==
    LET withNew == IF checksum \in DOMAIN c.segments
                      THEN c.segments
                      ELSE Put(c.segments, checksum, EmptyMap)
        gone == IF force
                   THEN {g \in DOMAIN withNew : g # checksum}
                   ELSE {g \in DOMAIN withNew : g # checksum /\ g # oldChecksum}
    IN  [c EXCEPT !.currentChecksum = checksum, !.segments = Drop(withNew, gone)]

\* lines 223-230: the object GetCache allocates; updateChan is nil (0) until
\* the goroutine started at line 231 has run line 120
NewCache(class, checksum, uncycled, ttl) ==
    [class |-> class, currentChecksum |-> checksum, segments |-> EmptyMap,
     ttl |-> ttl, uncycled |-> uncycled,
     updateChan |-> <<>>, started |-> FALSE, interval |-> ttl]

IdleCall == [pc |-> "idle", class |-> "a", ttl |-> NoTTL, uncycled |-> FALSE,
             cache |-> NoInst, newTTL |-> NoTTL]
\* flipped is a history field: the instances whose options a GetCache call
\* has written since this Cycle call began
IdleCycle == [pc |-> "idle", checksum |-> InitialChecksum, force |-> FALSE,
              old |-> InitialChecksum, todo |-> {}, cur |-> NoInst, flipped |-> {}]
NoHist == [cycles |-> <<>>, wrote |-> EmptyMap, deleted |-> EmptyMap]

\* the state after construction of the manager, for the runs of B
InitWith(B) ==
    /\ now = 0
    /\ mChecksum = InitialChecksum
    /\ caches = [cl \in Classes |-> NoInst]
    /\ heap = <<>>
    /\ call = [p \in Procs |-> IdleCall]
    /\ cyc = IdleCycle
    /\ budget \in B
    /\ used = [sets |-> 0, cycles |-> 0, calls |-> 0, deletes |-> 0]
    /\ handed = {}
    /\ hist = <<>>

Init == InitWith(Budgets)

\* The clock matters only once an entry exists.
Tick ==
    /\ now < MaxTime
    /\ \E i \in Insts : \E g \in DOMAIN heap[i].segments : heap[i].segments[g] # EmptyMap
    /\ now' = now + 1
    /\ UNCHANGED <<mChecksum, caches, heap, call, cyc, budget, used, handed, hist>>

\* --------------------------------------------------------------- cache calls
\* A caller can only use an instance that GetCache has returned.  Keys and
\* values are interchangeable, so the first Set of a run writes k1 -> v1.
\* Get runs under mCache.mu.RLock and writes nothing: the call returns one of
\* the outcomes of Get and leaves the state as it is.
CallGet(i, key) ==
    /\ i \in handed
    /\ Get(heap[i], key, now) # {}
    /\ UNCHANGED vars

\* The accessors return a field and write nothing.  Checksum reads under
\* mCache.mu.RLock; TTL and Uncycled read without the lock, and the value
\* they return is the field as it is before or after a concurrent write.
CallChecksum(i) ==
    /\ i \in handed
    /\ Checksum(heap[i]) \in Gens
    /\ UNCHANGED vars

CallTTL(i) ==
    /\ i \in handed
    /\ TTL(heap[i]) \in TTLs
    /\ UNCHANGED vars

CallUncycled(i) ==
    /\ i \in handed
    /\ Uncycled(heap[i]) \in BOOLEAN
    /\ UNCHANGED vars

CallSet(i, key, value) ==
    /\ i \in handed
    /\ used.sets < budget.sets
    /\ used.sets = 0 => key = "k1" /\ value = "v1"
    /\ heap' = [heap EXCEPT ![i] = Set(heap[i], key, value, now)]
    /\ used' = [used EXCEPT !.sets = @ + 1]
    /\ hist' = [hist EXCEPT ![i].wrote =
                    Put(@, key, [value |-> value, gen |-> heap[i].currentChecksum,
                                 at |-> now, d |-> heap[i].ttl]),
                             ![i].deleted = Drop(@, {key})]
    /\ UNCHANGED <<now, mChecksum, caches, call, cyc, budget, handed>>

CallDelete(i, key) ==
    /\ i \in handed
    /\ used.deletes < budget.deletes
    /\ heap' = [heap EXCEPT ![i] = Delete(heap[i], key)]
    /\ used' = [used EXCEPT !.deletes = @ + 1]
    /\ hist' = [hist EXCEPT ![i].deleted =
                    Put(@, key, {g \in DOMAIN heap[i].segments :
                                    key \in DOMAIN heap[i].segments[g]})]
    /\ UNCHANGED <<now, mChecksum, caches, call, cyc, budget, handed>>

\* --------------------------------------------------------------- reaper goroutine
\* line 120 and 123: the goroutine started by GetCache makes the channel
startReaper(i) ==
    /\ i \in Insts
    /\ ~heap[i].started
    /\ heap' = [heap EXCEPT ![i].started = TRUE, ![i].updateChan = <<>>]
    /\ UNCHANGED <<now, mChecksum, caches, call, cyc, budget, used, handed, hist>>

\* lines 128-129: case <-ticker.C
ReaperTick(i) ==
    /\ i \in Insts
    /\ heap[i].started
    /\ heap' = [heap EXCEPT ![i] = reap(heap[i], now)]
    /\ UNCHANGED <<now, mChecksum, caches, call, cyc, budget, used, handed, hist>>

\* lines 131-133: case newInterval := <-c.updateChan
ReaperUpdate(i) ==
    /\ i \in Insts
    /\ heap[i].started
    /\ heap[i].updateChan # <<>>
    /\ heap' = [heap EXCEPT ![i] =
                    reap([heap[i] EXCEPT !.interval = Head(heap[i].updateChan),
                                         !.updateChan = <<>>], now)]
    /\ UNCHANGED <<now, mChecksum, caches, call, cyc, budget, used, handed, hist>>

\* --------------------------------------------------------------- GetCache
\* The calling goroutines are interchangeable: a new call takes the first
\* idle one.
FirstIdle == IF call["p1"].pc = "idle" THEN "p1" ELSE "p2"

Return(p, i) ==
    /\ call' = [call EXCEPT ![p] = IdleCall]
    /\ handed' = handed \cup {i}

\* lines 191-195: the lookup under m.mu.RLock (excluded while Cycle holds m.mu).
\* Classes are interchangeable, so the first call of a run asks for class a.
GetCacheLookup(p, class, ttl, uncycled) ==
    /\ call[p].pc = "idle"
    /\ p = FirstIdle
    /\ class \in budget.classes
    /\ ttl \in budget.ttls \cup {NoTTL}
    /\ used.calls = 0 => class = "a"
    /\ Cardinality({q \in Procs : call[q].pc # "idle"}) < budget.par
    /\ cyc.pc = "idle"
    /\ used.calls < budget.calls
    /\ call' = [call EXCEPT ![p] =
                  [pc |-> IF caches[class] # NoInst THEN "update" ELSE "create",
                   class |-> class, ttl |-> ttl, uncycled |-> uncycled,
                   cache |-> caches[class], newTTL |-> NoTTL]]
    /\ used' = [used EXCEPT !.calls = @ + 1]
    /\ UNCHANGED <<now, mChecksum, caches, heap, cyc, budget, handed, hist>>

\* a faulty variant of GetCacheUpdate: without a TTL override the cache goes
\* back to the manager's default
GetCacheUpdateRevertsTTL(p) ==
    /\ call[p].pc = "update"
    /\ LET i == call[p].cache
           ttl == IF call[p].ttl # NoTTL THEN call[p].ttl ELSE DefaultTTL
           changed == heap[i].ttl # ttl
       IN  /\ heap' = [heap EXCEPT ![i].uncycled = call[p].uncycled,
                                   ![i].ttl = ttl]
           /\ IF changed
                 THEN /\ call' = [call EXCEPT ![p].pc = "send", ![p].newTTL = ttl]
                      /\ UNCHANGED handed
                 ELSE Return(p, i)
           /\ cyc' = IF cyc.pc = "idle" THEN cyc ELSE [cyc EXCEPT !.flipped = @ \cup {i}]
    /\ UNCHANGED <<now, mChecksum, caches, budget, used, hist>>

\* lines 196-204: the option update under mCache.mu; returns at line 214 when
\* there is nothing to send
GetCacheUpdate(p) ==
    /\ call[p].pc = "update"
    /\ LET i == call[p].cache
           changed == call[p].ttl # NoTTL /\ heap[i].ttl # call[p].ttl
       IN  /\ heap' = [heap EXCEPT ![i].uncycled = call[p].uncycled,
                                   ![i].ttl = IF changed THEN call[p].ttl ELSE @]
           /\ IF changed
                 THEN /\ call' = [call EXCEPT ![p].pc = "send", ![p].newTTL = call[p].ttl]
                      /\ UNCHANGED handed
                 ELSE Return(p, i)
           /\ cyc' = IF cyc.pc = "idle" THEN cyc ELSE [cyc EXCEPT !.flipped = @ \cup {i}]
    /\ UNCHANGED <<now, mChecksum, caches, budget, used, hist>>

\* a faulty variant of GetCacheSend: a plain send, which waits for the slot
GetCacheSendBlocking(p) ==
    /\ call[p].pc = "send"
    /\ LET i == call[p].cache
       IN  /\ heap[i].started /\ heap[i].updateChan = <<>>
           /\ heap' = [heap EXCEPT ![i].updateChan = <<call[p].newTTL>>]
           /\ Return(p, i)
    /\ UNCHANGED <<now, mChecksum, caches, cyc, budget, used, hist>>

\* lines 206-214: the non-blocking send; a nil or full channel takes the default
GetCacheSend(p) ==
    /\ call[p].pc = "send"
    /\ LET i == call[p].cache
       IN  /\ heap' = IF heap[i].started /\ heap[i].updateChan = <<>>
                         THEN [heap EXCEPT ![i].updateChan = <<call[p].newTTL>>]
                         ELSE heap
           /\ Return(p, i)
    /\ UNCHANGED <<now, mChecksum, caches, cyc, budget, used, hist>>

\* lines 217-233: creation under m.mu.Lock, with no second lookup
GetCacheCreate(p) ==
    /\ call[p].pc = "create"
    /\ cyc.pc = "idle"
    /\ LET ttl == IF call[p].ttl # NoTTL THEN call[p].ttl ELSE DefaultTTL
           i == Len(heap) + 1
       IN  /\ heap' = Append(heap, NewCache(call[p].class, mChecksum, call[p].uncycled, ttl))
           /\ caches' = [caches EXCEPT ![call[p].class] = i]
           /\ hist' = Append(hist, NoHist)
           /\ Return(p, i)
    /\ UNCHANGED <<now, mChecksum, cyc, budget, used>>

\* --------------------------------------------------------------- Cycle
\* lines 150-154; g1 and g2 are interchangeable, so the first Cycle of a run
\* installs g0 or g1
CycleBegin(checksum, force) ==
    /\ cyc.pc = "idle"
    /\ used.cycles < budget.cycles
    /\ used.cycles = 0 => checksum # "g2"
    /\ cyc' = [pc |-> "iter", checksum |-> checksum, force |-> force,
               old |-> mChecksum, todo |-> Registered, cur |-> NoInst, flipped |-> {}]
    /\ mChecksum' = checksum
    /\ used' = [used EXCEPT !.cycles = @ + 1]
    /\ UNCHANGED <<now, caches, heap, call, budget, handed, hist>>

\* a faulty variant of CycleVisit: the uncycled flag is not looked at
CycleVisitAll(i) ==
    /\ cyc.pc = "iter"
    /\ i \in cyc.todo
    /\ cyc' = [cyc EXCEPT !.pc = "apply", !.cur = i]
    /\ UNCHANGED <<now, mChecksum, caches, heap, call, budget, used, handed, hist>>

\* lines 156-160: the next cache of the range loop and the read of its
\* uncycled flag, made without mCache.mu
CycleVisit(i) ==
    /\ cyc.pc = "iter"
    /\ i \in cyc.todo
    /\ IF heap[i].uncycled /\ ~cyc.force
          THEN /\ cyc' = [cyc EXCEPT !.todo = @ \ {i}]
               /\ hist' = [hist EXCEPT ![i].cycles = <<>>]
          ELSE /\ cyc' = [cyc EXCEPT !.pc = "apply", !.cur = i]
               /\ UNCHANGED hist
    /\ UNCHANGED <<now, mChecksum, caches, heap, call, budget, used, handed>>

\* the record of one application kept in hist
Applied(c, checksum, force) == [from |-> c.currentChecksum, to |-> checksum, force |-> force]

\* lines 161-184
CycleApply ==
    /\ cyc.pc = "apply"
    /\ LET i == cyc.cur
       IN  /\ heap' = [heap EXCEPT ![i] = CycleCache(heap[i], cyc.checksum, cyc.old, cyc.force)]
           /\ hist' = [hist EXCEPT ![i].cycles =
                          IF @ = <<>> THEN <<Applied(heap[i], cyc.checksum, cyc.force)>>
                          ELSE <<@[Len(@)], Applied(heap[i], cyc.checksum, cyc.force)>>]
           /\ cyc' = [cyc EXCEPT !.pc = "iter", !.todo = @ \ {i}, !.cur = NoInst]
    /\ UNCHANGED <<now, mChecksum, caches, call, budget, used, handed>>

\* lines 187 and 151: the loop is over, m.mu is released
CycleReturn ==
    /\ cyc.pc = "iter"
    /\ cyc.todo = {}
    /\ cyc' = IdleCycle
    /\ UNCHANGED <<now, mChecksum, caches, heap, call, budget, used, handed, hist>>

Next ==
    \/ Tick
    \/ \E i \in Insts, key \in Keys : CallGet(i, key)
    \/ \E i \in Insts : CallChecksum(i)
    \/ \E i \in Insts : CallTTL(i)
    \/ \E i \in Insts : CallUncycled(i)
    \/ \E i \in Insts, key \in Keys, value \in Values : CallSet(i, key, value)
    \/ \E i \in Insts, key \in Keys : CallDelete(i, key)
    \/ \E i \in Insts : startReaper(i)
    \/ \E i \in Insts : ReaperTick(i)
    \/ \E i \in Insts : ReaperUpdate(i)
    \/ \E p \in Procs, class \in Classes, ttl \in TTLs \cup {NoTTL}, uncycled \in BOOLEAN :
          GetCacheLookup(p, class, ttl, uncycled)
    \/ \E p \in Procs : GetCacheUpdate(p)
    \/ \E p \in Procs : GetCacheSend(p)
    \/ \E p \in Procs : GetCacheCreate(p)
    \/ \E checksum \in Gens, force \in BOOLEAN : CycleBegin(checksum, force)
    \/ \E i \in Insts : CycleVisit(i)
    \/ CycleApply
    \/ CycleReturn

Spec == Init /\ [][Next]_vars

\* --------------------------------------------------------------- locking
\* For each step that touches an InMemoryCache: the mutable fields it reads,
\* those it writes, and how it holds mCache.mu meanwhile ("W": Lock, "R":
\* RLock, "none": not held).
Access ==
    [Checksum       |-> [reads |-> {"currentChecksum"}, writes |-> {}, lock |-> "R"],
     TTL            |-> [reads |-> {"ttl"}, writes |-> {}, lock |-> "none"],
     Uncycled       |-> [reads |-> {"uncycled"}, writes |-> {}, lock |-> "none"],
     Get            |-> [reads |-> {"segments", "currentChecksum"}, writes |-> {}, lock |-> "R"],
     Set            |-> [reads |-> {"segments", "currentChecksum", "ttl"},
                         writes |-> {"segments"}, lock |-> "W"],
     Delete         |-> [reads |-> {"segments"}, writes |-> {"segments"}, lock |-> "W"],
     reap           |-> [reads |-> {"segments"}, writes |-> {"segments"}, lock |-> "W"],
     CycleVisit     |-> [reads |-> {"uncycled"}, writes |-> {}, lock |-> "none"],
     CycleApply     |-> [reads |-> {"segments"},
                         writes |-> {"segments", "currentChecksum"}, lock |-> "W"],
     GetCacheUpdate |-> [reads |-> {"ttl"}, writes |-> {"uncycled", "ttl"}, lock |-> "W"]]

\* The steps on instance i that goroutines can be running at the same time:
\* the calls of the holders of the cache, its reaper, the Cycle call and the
\* GetCache calls that have looked the cache up.
Running(i) ==
    (IF i \in handed THEN {"Checksum", "TTL", "Uncycled", "Get"} ELSE {})
    \cup (IF i \in handed /\ used.sets < budget.sets THEN {"Set"} ELSE {})
    \cup (IF i \in handed /\ used.deletes < budget.deletes THEN {"Delete"} ELSE {})
    \cup (IF heap[i].started THEN {"reap"} ELSE {})
    \cup (IF cyc.pc = "iter" /\ i \in cyc.todo THEN {"CycleVisit"} ELSE {})
    \cup (IF cyc.pc = "apply" /\ cyc.cur = i THEN {"CycleApply"} ELSE {})
    \cup (IF \E p \in Procs : call[p].pc = "update" /\ call[p].cache = i
             THEN {"GetCacheUpdate"} ELSE {})

\* The instance numbers a run can allocate: one per GetCache call at most.
MaxCalls ==
    CHOOSE n \in {b.calls : b \in Budgets \cup LiveBudgets} :
        \A b \in Budgets \cup LiveBudgets : b.calls <= n
InstIds == 1..MaxCalls

\* Scheduling: the Go runtime runs every runnable goroutine, so a started call
\* goes on whenever its next step is possible, the goroutine started at line
\* 231 runs, and the reaper loop of each cache takes a ticker or channel case
\* that is ready.  Callers are free to make no further calls, and the clock
\* of the model is free to stop.
Fairness ==
    /\ \A i \in InstIds :
          WF_vars(startReaper(i)) /\ WF_vars(ReaperTick(i)) /\ WF_vars(ReaperUpdate(i))
    /\ \A p \in Procs :
          WF_vars(GetCacheUpdate(p)) /\ WF_vars(GetCacheSend(p)) /\ WF_vars(GetCacheCreate(p))
    /\ WF_vars(\E i \in InstIds : CycleVisit(i))
    /\ WF_vars(CycleApply)
    /\ WF_vars(CycleReturn)

FairSpec == InitWith(LiveBudgets) /\ [][Next]_vars /\ Fairness

\* =============================================================== claims
HasKey(c, g, key) == g \in DOMAIN c.segments /\ key \in DOMAIN c.segments[g]
\* a Cycle call has returned and none is in progress
Cycled == cyc.pc = "idle" /\ used.cycles > 0

\* C1: every GetCache call for a class returns the same instance: at most one
\* InMemoryCache is ever created per class, and an instance that was returned
\* is still the one registered for its class.
C1_OneInstancePerClass ==
    /\ \A i, j \in Insts : heap[i].class = heap[j].class => i = j
    /\ \A i \in handed : caches[heap[i].class] = i

\* C2: between the return of Cycle(G, force) and the next Cycle, every cache
\* that GetCache has handed out and whose uncycled flag is false has
\* currentChecksum = G.
C2_CycledCachesFollowManager ==
    Cycled => \A i \in handed :
                 ~heap[i].uncycled => heap[i].currentChecksum = mChecksum

\* C3 as claimed: a non-forced Cycle(G2, false) applied to a cache keeps the
\* segment of G2 and the segment of the generation G that was the cache's own
\* currentChecksum; if G2 # G, a key with an unexpired entry of value v under G
\* is then returned by Get as (v, true, false).
C3_KeepsCachePreviousGeneration ==
    [][(CycleApply /\ ~cyc.force) =>
        LET c == heap[cyc.cur]
            c2 == heap'[cyc.cur]
            G == c.currentChecksum
        IN  /\ \A g \in {G, cyc.checksum} \cap DOMAIN c.segments :
                  g \in DOMAIN c2.segments
            /\ cyc.checksum # G =>
                  \A k \in Keys :
                      (HasKey(c, G, k) /\ ~After(now, c.segments[G][k].expiry))
                      => Get(c2, k, now) = {<<c.segments[G][k].value, TRUE, FALSE>>}]_vars

\* C3 as amended: a non-forced Cycle(G2, false) applied to a cache keeps,
\* entry for entry, the segment of G2 and the segment of the generation G that
\* was the manager's currentChecksum before the call; if G2 # G, a key with an
\* unexpired entry of value v under G and no entry under G2 is then returned by
\* Get as (v, true, false).
C3_KeepsManagerPreviousGeneration ==
    [][(CycleApply /\ ~cyc.force) =>
        LET c == heap[cyc.cur]
            c2 == heap'[cyc.cur]
            G == cyc.old
        IN  /\ \A g \in {G, cyc.checksum} \cap DOMAIN c.segments :
                  g \in DOMAIN c2.segments /\ c2.segments[g] = c.segments[g]
            /\ cyc.checksum # G =>
                  \A k \in Keys :
                      (/\ HasKey(c, G, k)
                       /\ ~After(now, c.segments[G][k].expiry)
                       /\ ~HasKey(c, cyc.checksum, k))
                      => Get(c2, k, now) = {<<c.segments[G][k].value, TRUE, FALSE>>}]_vars

\* the last cycle applied to instance i
LastApplied(i) == hist[i].cycles[Len(hist[i].cycles)]

C3_Witness ==
    \E i \in Insts, k \in Keys :
        /\ hist[i].cycles # <<>>
        /\ ~LastApplied(i).force
        /\ LastApplied(i).from # LastApplied(i).to
        /\ heap[i].currentChecksum = LastApplied(i).to
        /\ HasKey(heap[i], LastApplied(i).from, k)
        /\ Get(heap[i], k, now) =
              {<<heap[i].segments[LastApplied(i).from][k].value, TRUE, FALSE>>}

\* C4: every cache holds at most two segments, and a cache that holds any
\* segment holds the one of its currentChecksum.
C4_AtMostTwoSegments ==
    \A i \in Insts :
        /\ Cardinality(DOMAIN heap[i].segments) <= 2
        /\ DOMAIN heap[i].segments # {}
              => heap[i].currentChecksum \in DOMAIN heap[i].segments

C4_Witness ==
    \E i \in Insts :
        /\ Len(hist[i].cycles) = 2
        /\ Cardinality(DOMAIN heap[i].segments) = 2
        /\ \A g \in DOMAIN heap[i].segments : heap[i].segments[g] # EmptyMap

\* the last Set of key on instance i
Wrote(i, key) == hist[i].wrote[key]
Written(i) == DOMAIN hist[i].wrote
Deadline(w) == w.at + w.d

\* C5: Get never returns an entry whose expiry is before the current time,
\* reaped or not: a hit is an unexpired stored entry, and the entry that
\* Set(k, v) wrote at time t under ttl d has expiry t + d, is returned as
\* (v, true, true) up to t + d while it is stored in the current segment,
\* and is not returned after t + d.
C5_NoExpiredHit ==
    \A i \in Insts, k \in Keys :
        LET c == heap[i] IN
        /\ \A r \in Get(c, k, now) :
              r[2] => \E g \in DOMAIN c.segments :
                         /\ HasKey(c, g, k)
                         /\ c.segments[g][k].value = r[1]
                         /\ now <= c.segments[g][k].expiry
                         /\ r[3] <=> g = c.currentChecksum
        /\ (k \in Written(i) /\ HasKey(c, Wrote(i, k).gen, k)) =>
              LET w == Wrote(i, k) IN
              /\ c.segments[w.gen][k] = [value |-> w.value, expiry |-> Deadline(w)]
              /\ w.gen = c.currentChecksum =>
                    Get(c, k, now) = IF now <= Deadline(w)
                                        THEN {<<w.value, TRUE, TRUE>>}
                                        ELSE {NotFound}
              /\ (w.gen # c.currentChecksum /\ now > Deadline(w)) =>
                    \A r \in Get(c, k, now) : ~(r[2] /\ ~r[3])

\* an expired entry that no reaper pass has removed
C5_Witness ==
    \E i \in Insts, k \in Keys :
        /\ k \in Written(i)
        /\ Wrote(i, k).gen = heap[i].currentChecksum
        /\ HasKey(heap[i], Wrote(i, k).gen, k)
        /\ now > Deadline(Wrote(i, k))
        /\ Get(heap[i], k, now) = {NotFound}

\* the generations whose entry Get(key) may return at time t
HitGens(c, key, t) ==
    {g \in DOMAIN c.segments :
        /\ HasKey(c, g, key)
        /\ ~After(t, c.segments[g][key].expiry)
        /\ g = c.currentChecksum \/ ~HasKey(c, c.currentChecksum, key)}

\* C6, first part: when Cycle(G, true) returns, every registered cache,
\* uncycled or not, has currentChecksum = G and exactly the segment of G.
ForcedCycleCollapses ==
    (CycleReturn /\ cyc.force) =>
        \A i \in Registered :
            /\ heap[i].currentChecksum = cyc.checksum
            /\ DOMAIN heap[i].segments = {cyc.checksum}

\* C6 as claimed: with the first part, a key that was a hit under a generation
\* other than G just before the forced cycle is not found right after it.
C6_ForcedCycleForgetsHits ==
    [][/\ ForcedCycleCollapses
       /\ (CycleApply /\ cyc.force) =>
             \A k \in Keys :
                 (\E g \in HitGens(heap[cyc.cur], k, now) : g # cyc.checksum)
                 => Get(heap'[cyc.cur], k, now) = {NotFound}]_vars

\* C6 as amended: with the first part, a key that was a hit under a generation
\* other than G just before the forced cycle, and that has no unexpired entry
\* in the segment of G, is not found right after it.
C6_ForcedCycleForgetsOtherGenerations ==
    [][/\ ForcedCycleCollapses
       /\ (CycleApply /\ cyc.force) =>
             \A k \in Keys :
                 (/\ \E g \in HitGens(heap[cyc.cur], k, now) : g # cyc.checksum
                  /\ ~(/\ HasKey(heap[cyc.cur], cyc.checksum, k)
                       /\ ~After(now, heap[cyc.cur].segments[cyc.checksum][k].expiry)))
                 => Get(heap'[cyc.cur], k, now) = {NotFound}]_vars

\* a forced cycle to another generation has returned and a key written before
\* it, not expired and never deleted, is not found
C6_Witness ==
    \E i \in Registered, k \in Keys :
        /\ cyc.pc = "idle"
        /\ used.deletes = 0
        /\ hist[i].cycles # <<>>
        /\ LastApplied(i).force
        /\ LastApplied(i).to = heap[i].currentChecksum
        /\ heap[i].uncycled
        /\ k \in Written(i)
        /\ Wrote(i, k).gen = LastApplied(i).from
        /\ Wrote(i, k).gen # heap[i].currentChecksum
        /\ now <= Deadline(Wrote(i, k))
        /\ Get(heap[i], k, now) = {NotFound}

\* a step of the Cycle call in progress
CycleStep == CycleApply \/ CycleReturn \/ \E j \in Insts : CycleVisit(j)

TwoCycles(i, G, G2, G3) ==
    /\ Len(hist[i].cycles) = 2
    /\ hist[i].cycles[1] = [from |-> G, to |-> G2, force |-> FALSE]
    /\ hist[i].cycles[2] = [from |-> G2, to |-> G3, force |-> FALSE]
    /\ G # G2 /\ G # G3 /\ G2 # G3

\* C8 as claimed: after Cycle(G2, false) and Cycle(G3, false) on a cache, the
\* segment of G is gone and a key Set under G is not found.
C8_SecondCycleLosesKey ==
    \A i \in Insts, G \in Gens, G2 \in Gens, G3 \in Gens :
        TwoCycles(i, G, G2, G3) =>
            /\ G \notin DOMAIN heap[i].segments
            /\ \A k \in Written(i) :
                  Wrote(i, k).gen = G => Get(heap[i], k, now) = {NotFound}

\* C8 as amended: after Cycle(G2, false) and Cycle(G3, false) on a cache, the
\* segment of G is gone, no entry of G is returned, and a key Set under G
\* that has no entry under G2 or G3 is not found.
C8_SecondCyclePrunes ==
    \A i \in Insts, G \in Gens, G2 \in Gens, G3 \in Gens :
        TwoCycles(i, G, G2, G3) =>
            /\ G \notin DOMAIN heap[i].segments
            /\ \A k \in Keys : HitGens(heap[i], k, now) \subseteq {G2, G3}
            /\ \A k \in Written(i) :
                  (/\ Wrote(i, k).gen = G
                   /\ ~HasKey(heap[i], G2, k)
                   /\ ~HasKey(heap[i], G3, k))
                  => Get(heap[i], k, now) = {NotFound}

\* a key written under g0 and not expired is not found after two cycles
C8_Witness ==
    \E i \in Insts, k \in Keys, G2 \in Gens, G3 \in Gens :
        /\ TwoCycles(i, InitialChecksum, G2, G3)
        /\ k \in Written(i)
        /\ Wrote(i, k).gen = InitialChecksum
        /\ now <= Deadline(Wrote(i, k))
        /\ used.deletes = 0
        /\ Get(heap[i], k, now) = {NotFound}

\* C9: Set(k, v) makes Get(k) return (v, true, true), replaces the entry of k
\* in the segment of currentChecksum (made if absent) and changes nothing
\* else; Get(k) keeps returning (v, true, true) through every step that is
\* not a Delete or Set of k, a Cycle of the cache or the expiry of the entry.
C9_SetThenGet ==
    [][/\ \A i \in Insts, k \in Keys, v \in Values :
             CallSet(i, k, v) =>
                 LET c == heap[i]
                     c2 == heap'[i]
                     cur == c.currentChecksum
                 IN  /\ Get(c2, k, now') = {<<v, TRUE, TRUE>>}
                     /\ c2.currentChecksum = cur
                     /\ DOMAIN c2.segments = DOMAIN c.segments \cup {cur}
                     /\ \A g \in DOMAIN c.segments \ {cur} : c2.segments[g] = c.segments[g]
                     /\ \A k2 \in Keys \ {k} :
                           /\ HasKey(c2, cur, k2) <=> HasKey(c, cur, k2)
                           /\ HasKey(c, cur, k2) => c2.segments[cur][k2] = c.segments[cur][k2]
                     /\ \A j \in Insts \ {i} : heap'[j] = heap[j]
       /\ \A i \in Insts, k \in Keys :
             (/\ HasKey(heap[i], heap[i].currentChecksum, k)
              /\ now' <= heap[i].segments[heap[i].currentChecksum][k].expiry
              /\ ~CallDelete(i, k)
              /\ ~(CycleApply /\ cyc.cur = i)
              /\ ~\E v \in Values : CallSet(i, k, v))
             => Get(heap'[i], k, now') =
                   {<<heap[i].segments[heap[i].currentChecksum][k].value, TRUE, TRUE>>}]_vars

\* the second Set of a run has overwritten k1 -> v1 by k1 -> v2
C9_Witness ==
    \E i \in Insts :
        /\ used.sets = 2
        /\ Written(i) = {"k1"}
        /\ \A j \in Insts \ {i} : Written(j) = {}
        /\ Wrote(i, "k1").value = "v2"
        /\ Get(heap[i], "k1", now) = {<<"v2", TRUE, TRUE>>}

\* C10: while no Cycle and no Delete has been called, every key that was Set
\* on a cache is returned by Get with the value last written for it, as long
\* as its entry has not expired, whatever Sets of other keys, Gets, reaper
\* passes and GetCache calls have run.
C10_NoLostUpdate ==
    (used.cycles = 0 /\ used.deletes = 0) =>
        \A i \in Insts : \A k \in Written(i) :
            now <= Deadline(Wrote(i, k))
            => Get(heap[i], k, now) = {<<Wrote(i, k).value, TRUE, TRUE>>}

\* both keys were Set on one cache whose reaper runs, and both are returned
C10_Witness ==
    \E i \in Insts :
        /\ used.cycles = 0 /\ used.deletes = 0
        /\ heap[i].started
        /\ Written(i) = Keys
        /\ \A k \in Keys : Get(heap[i], k, now) = {<<Wrote(i, k).value, TRUE, TRUE>>}

\* C11: Delete(k) removes k from every segment of the cache, current and
\* stale, and changes nothing else: the set of segments, every other key, the
\* other fields and the other caches are as before; Get(k) then reports not
\* found, a second Delete(k) changes nothing, and k stays absent from every
\* segment through every step that is not a Set of k.  Delete has no other
\* outcome, also when k is absent.
C11_DeleteRemovesEverywhere ==
    [][/\ used'.deletes # used.deletes =>
          \A i \in Insts, k \in Keys :
             CallDelete(i, k) =>
                 LET c == heap[i]
                     c2 == heap'[i]
                 IN  /\ DOMAIN c2.segments = DOMAIN c.segments
                     /\ \A g \in DOMAIN c.segments :
                           /\ DOMAIN c2.segments[g] = DOMAIN c.segments[g] \ {k}
                           /\ \A k2 \in DOMAIN c2.segments[g] :
                                 c2.segments[g][k2] = c.segments[g][k2]
                     /\ c2.currentChecksum = c.currentChecksum
                     /\ c2.ttl = c.ttl /\ c2.uncycled = c.uncycled
                     /\ Get(c2, k, now') = {NotFound}
                     /\ Delete(c2, k) = c2
                     /\ \A j \in Insts \ {i} : heap'[j] = heap[j]
       /\ heap' # heap =>
          \A i \in Insts, k \in Keys :
             (/\ \A g \in Gens : ~HasKey(heap[i], g, k)
              /\ ~\E v \in Values : CallSet(i, k, v))
             => /\ \A g \in Gens : ~HasKey(heap'[i], g, k)
                /\ Get(heap'[i], k, now') = {NotFound}]_vars

\* a Delete has removed a key from the current and from the stale segment
C11_Witness ==
    \E i \in Insts, k \in Keys :
        /\ k \in DOMAIN hist[i].deleted
        /\ Cardinality(hist[i].deleted[k]) = 2
        /\ Cardinality(DOMAIN heap[i].segments) = 2
        /\ Get(heap[i], k, now) = {NotFound}

\* entry k of segment g of instance i is stored and its expiry has passed
Expired(i, g, k) ==
    /\ i \in Insts
    /\ HasKey(heap[i], g, k)
    /\ After(now, heap[i].segments[g][k].expiry)

\* a reap pass on instance i
ReapPass(i) == ReaperTick(i) \/ ReaperUpdate(i)

\* C12: right after a reap pass no segment of the cache, current or stale,
\* holds an entry whose expiry is before the time of the pass; the pass
\* removes no entry that has not expired, no segment, and changes no other
\* field and no other cache; with the reaper goroutine scheduled fairly,
\* every entry whose expiry has passed is eventually removed: each cache is
\* again and again free of expired entries.
C12_ReaperRemovesExpired ==
    /\ [][\A i \in Insts :
             ReapPass(i) =>
                 LET c == heap[i]
                     c2 == heap'[i]
                 IN  /\ DOMAIN c2.segments = DOMAIN c.segments
                     /\ \A g \in DOMAIN c.segments :
                           /\ DOMAIN c2.segments[g] =
                                 {k \in DOMAIN c.segments[g] : c.segments[g][k].expiry >= now}
                           /\ \A k \in DOMAIN c2.segments[g] :
                                 c2.segments[g][k] = c.segments[g][k]
                     /\ c2.currentChecksum = c.currentChecksum
                     /\ c2.ttl = c.ttl /\ c2.uncycled = c.uncycled
                     /\ \A j \in Insts \ {i} : heap'[j] = heap[j]]_vars
    /\ \A i \in InstIds : []<>(\A g \in Gens, k \in Keys : ~Expired(i, g, k))

\* the reaper has removed an expired entry from the stale segment
C12_Witness ==
    \E i \in Insts, k \in Keys :
        /\ used.deletes = 0 /\ used.cycles = 1
        /\ k \in Written(i)
        /\ Wrote(i, k).gen # heap[i].currentChecksum
        /\ Wrote(i, k).gen \in DOMAIN heap[i].segments
        /\ ~HasKey(heap[i], Wrote(i, k).gen, k)
        /\ now > Deadline(Wrote(i, k))
        /\ \A g \in Gens, k3 \in Keys : ~Expired(i, g, k3)

\* no TTL change of instance i is on its way to the reaper: no GetCache call
\* is about to send one and the channel is empty
NoChangePending(i) ==
    /\ heap[i].updateChan = <<>>
    /\ \A p \in Procs : ~(call[p].pc = "send" /\ call[p].cache = i)

\* C13: the reaper's tick interval converges to the cache's ttl field: once
\* the reaper goroutine runs and no TTL change is on its way to it, its
\* interval is the cache's ttl, whatever TTL changes GetCache has made.
C13_ReaperFollowsTTL ==
    \A i \in Insts :
        (heap[i].started /\ NoChangePending(i)) => heap[i].interval = heap[i].ttl

\* C14: every access to a mutable field of a cache is made under the cache's
\* mutex, shared for a read and exclusive for a write: whenever one goroutine
\* is about to write a field of a cache and another is about to read or
\* write the same field, the writer holds the lock exclusively and the other
\* holds it too.
C14_FieldsAccessedUnderLock ==
    \A i \in Insts : \A a \in Running(i) : \A b \in Running(i) \ {a} :
        Access[a].writes \cap (Access[b].reads \cup Access[b].writes) # {}
        => Access[a].lock = "W" /\ Access[b].lock # "none"

\* No step waits for a lock or a channel that another call holds on to: a
\* GetCache call that has released the manager's lock goes on to its option
\* update and to its send whatever Cycle and the reaper do, the send goes
\* through with the slot full or the channel not yet made, creation waits
\* only for a Cycle in progress, Cycle takes each cache's lock while it holds
\* the manager's, and the calls on a cache and its reap passes wait for
\* nothing.
NeverBlocked ==
    /\ \A p \in Procs :
          /\ call[p].pc = "update" => ENABLED GetCacheUpdate(p)
          /\ call[p].pc = "send" => ENABLED GetCacheSend(p)
          /\ (call[p].pc = "create" /\ cyc.pc = "idle") => ENABLED GetCacheCreate(p)
    /\ cyc.pc = "apply" => ENABLED CycleApply
    /\ cyc.pc = "iter" => ENABLED (CycleReturn \/ \E i \in Insts : CycleVisit(i))
    /\ \A i \in Insts :
          /\ heap[i].started => ENABLED ReaperTick(i)
          /\ i \in handed =>
                /\ ENABLED CallChecksum(i)
                /\ \A k \in Keys : ENABLED CallGet(i, k)
                /\ used.sets < budget.sets =>
                      \E k \in Keys, v \in Values : ENABLED CallSet(i, k, v)
                /\ used.deletes < budget.deletes =>
                      \A k \in Keys : ENABLED CallDelete(i, k)

\* C15: under fair scheduling every started GetCache call and every started
\* Cycle call returns, and no step of a call or of the reaper ever waits for
\* another call: the locks are taken in the order manager, cache, and the
\* send of GetCache, made after the cache's lock is released, never blocks.
C15_EveryCallCompletes ==
    /\ []NeverBlocked
    /\ \A p \in Procs : (call[p].pc # "idle") ~> (call[p].pc = "idle")
    /\ (cyc.pc # "idle") ~> (cyc.pc = "idle")

\* a GetCache call has returned after its send found the slot full: the
\* channel holds an earlier TTL than the cache
C15_Witness ==
    \E i \in Insts :
        /\ heap[i].started
        /\ heap[i].updateChan # <<>>
        /\ Head(heap[i].updateChan) # heap[i].ttl
        /\ \A p \in Procs : call[p].pc = "idle"
        /\ i \in handed

\* C16: GetCache on a registered class goes on with the registered instance
\* and returns it; it sets the instance's uncycled flag to opts.Uncycled, and
\* its ttl to opts.TTL only when that is present and differs (a nil TTL
\* leaves the ttl as it is); currentChecksum, the segments with the expiry of
\* every stored entry, the registry and every other cache stay as they are,
\* and a later Set stamps its entry with the ttl of the time of the Set.
C16_GetCacheUpdatesOptionsOnly ==
    [][/\ used'.calls # used.calls =>
          \A p \in Procs, class \in Classes, ttl \in TTLs \cup {NoTTL}, u \in BOOLEAN :
             (GetCacheLookup(p, class, ttl, u) /\ caches[class] # NoInst)
             => /\ call'[p].cache = caches[class]
                /\ call'[p].pc = "update"
                /\ heap' = heap /\ caches' = caches
       /\ \A p \in Procs :
             GetCacheUpdate(p) =>
                 LET i == call[p].cache
                     c == heap[i]
                     c2 == heap'[i]
                     changed == call[p].ttl # NoTTL /\ call[p].ttl # c.ttl
                 IN  /\ c2.uncycled = call[p].uncycled
                     /\ c2.ttl = IF changed THEN call[p].ttl ELSE c.ttl
                     /\ c2 = [c EXCEPT !.uncycled = c2.uncycled, !.ttl = c2.ttl]
                     /\ \A j \in Insts \ {i} : heap'[j] = heap[j]
                     /\ caches' = caches /\ mChecksum' = mChecksum
                     /\ ~changed => (call'[p].pc = "idle" /\ i \in handed')
                     /\ changed => (call'[p].pc = "send" /\ call'[p].cache = i)
       /\ \A p \in Procs :
             GetCacheSend(p) =>
                 LET i == call[p].cache
                 IN  /\ heap'[i] = [heap[i] EXCEPT !.updateChan = heap'[i].updateChan]
                     /\ \A j \in Insts \ {i} : heap'[j] = heap[j]
                     /\ caches' = caches /\ mChecksum' = mChecksum
                     /\ call'[p].pc = "idle" /\ i \in handed'
       /\ used'.sets # used.sets =>
          \A i \in Insts, k \in Keys, v \in Values :
             CallSet(i, k, v) =>
                 heap'[i].segments[heap[i].currentChecksum][k].expiry = now + heap[i].ttl]_vars

\* the ttl of a cache was changed after a Set, a later call without a TTL
\* override or with the same one has left it as it is, and the entry keeps
\* the expiry it was written with
C16_Witness ==
    \E i \in handed, k \in Keys :
        /\ \A p \in Procs : call[p].pc = "idle"
        /\ used.calls = 3
        /\ heap[i].ttl # DefaultTTL
        /\ k \in Written(i)
        /\ Wrote(i, k).d # heap[i].ttl
        /\ HasKey(heap[i], Wrote(i, k).gen, k)
        /\ heap[i].segments[Wrote(i, k).gen][k].expiry = Deadline(Wrote(i, k))

\* C17: a key with an entry in the segment of currentChecksum is answered
\* from that entry alone: Get returns the entry's value with isCurrent = true
\* if the entry has not expired and not found if it has, never a value from
\* another segment, also when a stale segment holds an unexpired entry of
\* the key.
C17_CurrentEntryIsAuthoritative ==
    \A i \in Insts, k \in Keys :
        LET c == heap[i]
            cur == c.currentChecksum
        IN  HasKey(c, cur, k) =>
                /\ Get(c, k, now) = IF now > c.segments[cur][k].expiry
                                       THEN {NotFound}
                                       ELSE {<<c.segments[cur][k].value, TRUE, TRUE>>}
                /\ \A r \in Get(c, k, now) : r[2] => r[3]

\* the current entry of a key has expired, a stale segment holds an
\* unexpired entry of the key, and the key is not found
C17_Witness ==
    \E i \in Insts, k \in Keys, g \in Gens :
        LET c == heap[i]
        IN  /\ HasKey(c, c.currentChecksum, k)
            /\ now > c.segments[c.currentChecksum][k].expiry
            /\ g # c.currentChecksum
            /\ HasKey(c, g, k)
            /\ now <= c.segments[g][k].expiry
            /\ Get(c, k, now) = {NotFound}

\* the unexpired entries of key in the segments other than the current one
StaleEntries(c, key, t) ==
    {c.segments[g][key] :
        g \in {h \in DOMAIN c.segments \ {c.currentChecksum} :
                  HasKey(c, h, key) /\ t <= c.segments[h][key].expiry}}

\* the three shapes of the result of Get(k) on instance i
GetShapes(i, k) ==
    LET c == heap[i]
        cur == c.currentChecksum
        res == Get(c, k, now)
    IN  /\ Cardinality(res) = 1
        /\ \A r \in res : ~r[3] => r[2]
        /\ IF HasKey(c, cur, k) /\ now <= c.segments[cur][k].expiry
              THEN res = {<<c.segments[cur][k].value, TRUE, TRUE>>}
              ELSE IF ~HasKey(c, cur, k) /\ StaleEntries(c, k, now) # {}
                      THEN res = {<<e.value, TRUE, FALSE>> : e \in StaleEntries(c, k, now)}
                      ELSE res = {NotFound}
        /\ k \notin Written(i) => res = {NotFound}

\* C18: the result of Get is (v, true, true) when k has an unexpired entry in
\* the current segment, (v, true, false) when k has no entry in the current
\* segment and an unexpired one in a stale segment, and ("", false, true)
\* otherwise; isCurrent = false comes only with found = true, a key never
\* written on the cache is not found, and a Get call changes nothing.
C18_GetShapes ==
    /\ [](\A i \in Insts, k \in Keys : GetShapes(i, k))
    /\ [][(heap' # heap \/ hist' # hist) =>
             \A i \in Insts, k \in Keys : ~CallGet(i, k)]_vars

\* on one cache a key is a stale hit and a key never written is not found
C18_Witness ==
    \E i \in Insts, k \in Keys, k2 \in Keys :
        /\ k \in Written(i)
        /\ Get(heap[i], k, now) = {<<Wrote(i, k).value, TRUE, FALSE>>}
        /\ k2 \notin Written(i)
        /\ Get(heap[i], k2, now) = {NotFound}

\* C19: a reap pass is not observable through Get: in every reachable state,
\* for every cache and key, Get returns the same result whether or not a reap
\* pass has just run.
C19_ReapIsTransparent ==
    \A i \in Insts, k \in Keys :
        Get(reap(heap[i], now), k, now) = Get(heap[i], k, now)

\* C20: Cycle(G, false) called while the manager's currentChecksum is already
\* G, as in a second call in a row, leaves as it is a cache that is at G and
\* holds the segment of G, as every cache does that the first call cycled:
\* the stale segment that the first call kept is still there, with the stale
\* hits it serves.
C20_RepeatedCycleChangesNothing ==
    [][(/\ CycleApply
        /\ ~cyc.force
        /\ cyc.old = cyc.checksum
        /\ heap[cyc.cur].currentChecksum = cyc.checksum
        /\ cyc.checksum \in DOMAIN heap[cyc.cur].segments)
       => /\ heap'[cyc.cur] = heap[cyc.cur]
          /\ \A k \in Keys : Get(heap'[cyc.cur], k, now) = Get(heap[cyc.cur], k, now)]_vars
====
